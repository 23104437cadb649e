---------------------------- MODULE Proxies_proofs ----------------------------
(***************************************************************************)
(* Proofs about the two proxies that count or keep something for the       *)
(* requests they serve, for any number of them.                            *)
(*   - RuntimeProxy: the token files are each call's own and go with it,   *)
(*     and keys are neither refused nor honoured wrongly.  The two halves  *)
(*     rest on an invariant each.                                          *)
(*   - GenAIProxy: its types, that usage is durable and never too much,    *)
(*     and that a project exceeds its daily limit at most by what is       *)
(*     served at the same time.                                            *)
(***************************************************************************)
EXTENDS RuntimeProxy, GenAIProxy, FiniteSetTheorems, TLAPS

-----------------------------------------------------------------------------
(* RuntimeProxy                                                            *)

Shape ==
  /\ DOMAIN call = Calls
  /\ \A c \in Calls : DOMAIN call[c] = DOMAIN Idle

LEMMA Fields ==
  DOMAIN Idle = {"phase", "tool", "token", "keys", "stage", "known", "gone", "attached"}
BY DEF Idle

LEMMA InitShape == Init => Shape
BY DEF Init, Shape

\* Every step gives a call a record of the same fields.
LEMMA ShapeKept == Shape /\ [Next]_vars => Shape'
<1> SUFFICES ASSUME Shape, [Next]_vars PROVE Shape'
  OBVIOUS
<1> USE Fields DEF Shape
<1>1. ASSUME NEW c \in Calls, CallStep(c) PROVE Shape'
  <2>1. CASE Load(c)
    BY <2>1 DEF Load, Join
  <2>2. CASE Look(c)
    BY <2>2 DEF Look, Join, End, Over
  <2>3. CASE Authorized(c)
    BY <2>3 DEF Authorized, Forward, Goto, End, Over
  <2>4. CASE Exchanged(c)
    BY <2>4 DEF Exchanged, Goto, End, Over
  <2>5. CASE Publish(c)
    BY <2>5 DEF Publish, Forward, Goto, End, Over
  <2>6. CASE Aborted(c)
    BY <2>6 DEF Aborted, Goto
  <2>7. CASE Remove(c)
    BY <2>7 DEF Remove, End, Over
  <2>8. QED
    BY <1>1, <2>1, <2>2, <2>3, <2>4, <2>5, <2>6, <2>7 DEF CallStep
<1>2. ASSUME NEW c \in Calls, UpstreamEnds(c) \/ ClientLeaves(c) PROVE Shape'
  BY <1>2 DEF UpstreamEnds, ClientLeaves, Goto
<1>3. ASSUME NEW c \in Calls, NEW tool, NEW token, Arrive(c, tool, token) PROVE Shape'
  BY <1>3 DEF Arrive
<1>4. CASE FetchRead
  BY <1>4 DEF FetchRead
<1>5. CASE FetchEnds
  BY <1>5 DEF FetchEnds
<1>6. CASE FetchFails
  BY <1>6 DEF FetchFails, Over
<1>7. ASSUME NEW kid, NEW key, Rotate(kid, key) PROVE Shape'
  BY <1>7 DEF Rotate
<1>8. CASE Restart
  BY <1>8 DEF Restart, Over
<1>9. CASE Tick
  BY <1>9 DEF Tick
<1>10. CASE UNCHANGED vars
  BY <1>10 DEF vars
<1>11. QED
  BY <1>1, <1>2, <1>3, <1>4, <1>5, <1>6, <1>7, <1>8, <1>9, <1>10 DEF Next

-----------------------------------------------------------------------------
(* Token files *)

Holding == {"forward", "stuck", "remove"}

\* FilesInUse, and: a file of a call in hand is where that call looks for it.
Placed ==
  \A f \in files :
    \/ f.token \in leftover
    \/ /\ f.token \in Calls /\ call[f.token].phase \in Holding
       /\ f.path = Path(f.token)

FilesIInv == Shape /\ OwnToken /\ Placed

LEMMA InitFiles == Init => FilesIInv
<1> SUFFICES ASSUME Init PROVE FilesIInv
  OBVIOUS
<1>1. \A c \in Calls : call[c].phase = "idle"
  BY DEF Init, Idle
<1>2. QED
  BY <1>1, InitShape DEF Init, FilesIInv, OwnToken, Placed

\* A call that leaves its files alone goes on holding them, and is not
\* forwarded with a file it has not.
Quiet(c) ==
  /\ call[c].phase \in Holding =>
       call'[c].phase \in Holding /\ call'[c].tool = call[c].tool
  /\ call'[c].phase = "forward" /\ call'[c].tool \in ScopedTools =>
       call[c].phase = "forward" /\ call[c].tool = call'[c].tool

LEMMA QuietKeeps ==
  ASSUME FilesIInv, Shape', UNCHANGED <<files, leftover>>, \A c \in Calls : Quiet(c)
  PROVE  FilesIInv'
<1>1. OwnToken'
  BY DEF FilesIInv, OwnToken, Quiet, Path
<1>2. Placed'
  BY DEF FilesIInv, Placed, Quiet, Path
<1>3. QED
  BY <1>1, <1>2 DEF FilesIInv

\* The paths of two calls are not the same.
LEMMA PathsDiffer == \A c, d : Path(c) = Path(d) => c = d
BY DEF Path

LEMMA PublishKeeps ==
  ASSUME FilesIInv, Shape', NEW c \in Calls, Publish(c)
  PROVE  FilesIInv'
<1>1. /\ call[c].phase = "write" /\ UNCHANGED leftover
      /\ DOMAIN call = Calls /\ DOMAIN call[c] = DOMAIN Idle
  BY DEF Publish, FilesIInv, Shape
<1>2. \A d \in Calls \ {c} : call'[d] = call[d] /\ Path(d)' = Path(d)
  BY <1>1, Fields DEF Publish, Forward, Goto, End, Path
<1>3. CASE /\ files' = {f \in files : f.path # Path(c)} \cup {[path |-> Path(c), token |-> c]}
           /\ Forward(c) \/ Goto(c, "remove")
  <2>1. call'[c].phase \in {"forward", "remove"} /\ call'[c].tool = call[c].tool
    <3>1. CASE Forward(c)
      <4>1. PICK gone \in BOOLEAN :
              call' = [call EXCEPT ![c].phase = "forward", ![c].gone = gone,
                                   ![c].attached = ~gone]
        BY <3>1 DEF Forward
      <4>2. call'[c] = [call[c] EXCEPT !.phase = "forward", !.gone = gone,
                                       !.attached = ~gone]
        BY <1>1, <4>1
      <4>3. QED
        BY <1>1, <4>2, Fields
    <3>2. CASE Goto(c, "remove")
      <4>1. call'[c] = [call[c] EXCEPT !.phase = "remove"]
        BY <1>1, <3>2 DEF Goto
      <4>2. QED
        BY <1>1, <4>1, Fields
    <3>3. QED
      BY <1>3, <3>1, <3>2
  <2>2. Path(c)' = Path(c)
    BY <2>1 DEF Path
  <2>3. OwnToken'
    <3> SUFFICES ASSUME NEW d \in Calls, call'[d].phase = "forward", call'[d].tool \in ScopedTools
                 PROVE  \E f \in files' : f.path = Path(d)' /\ f.token = d
      BY DEF OwnToken
    <3>1. CASE d = c
      <4>1. [path |-> Path(c), token |-> c] \in files'
        BY <1>3
      <4>2. Path(d)' = Path(c)
        BY <2>1, <3>1 DEF Path
      <4>3. QED
        BY <3>1, <4>1, <4>2
    <3>2. CASE d # c
      <4>1. PICK f \in files : f.path = Path(d) /\ f.token = d
        BY <1>2, <3>2 DEF FilesIInv, OwnToken
      <4>2. f \in files'
        BY <1>3, <3>2, <4>1, PathsDiffer
      <4>3. QED
        BY <1>2, <3>2, <4>1, <4>2
    <3>3. QED
      BY <3>1, <3>2
  <2>4. Placed'
    <3> SUFFICES ASSUME NEW f \in files'
                 PROVE  \/ f.token \in leftover
                        \/ /\ f.token \in Calls /\ call'[f.token].phase \in Holding
                           /\ f.path = Path(f.token)'
      BY <1>1 DEF Placed
    <3>1. CASE f = [path |-> Path(c), token |-> c]
      BY <2>1, <2>2, <3>1 DEF Holding
    <3>2. CASE f \in files
      BY <1>1, <1>2, <3>2 DEF FilesIInv, Placed, Holding
    <3>3. QED
      BY <1>3, <3>1, <3>2
  <2>5. QED
    BY <2>3, <2>4 DEF FilesIInv
<1>4. CASE End(c, "denied") /\ UNCHANGED files
  <2>1. call'[c].phase = "denied"
    BY <1>1, <1>4, Fields DEF End, Over
  <2>2. \A d \in Calls : Quiet(d)
    BY <1>1, <1>2, <2>1 DEF Quiet, Holding
  <2>3. QED
    BY <1>1, <1>4, <2>2, QuietKeeps
<1>5. QED
  BY <1>3, <1>4 DEF Publish

LEMMA RemoveKeeps ==
  ASSUME FilesIInv, Shape', NEW c \in Calls, Remove(c)
  PROVE  FilesIInv'
<1>1. /\ call[c].phase = "remove" /\ DOMAIN call = Calls
      /\ call'[c].phase = "ended"
      /\ \A d \in Calls \ {c} : call'[d] = call[d] /\ Path(d)' = Path(d)
  BY Fields DEF Remove, End, Over, FilesIInv, Shape, Path
<1>2. \/ files' = Removed(c) /\ UNCHANGED leftover
      \/ leftover' = leftover \cup {c} /\ UNCHANGED files
  BY DEF Remove
<1>3. OwnToken'
  <2> SUFFICES ASSUME NEW d \in Calls, call'[d].phase = "forward", call'[d].tool \in ScopedTools
               PROVE  \E f \in files' : f.path = Path(d)' /\ f.token = d
    BY DEF OwnToken
  <2>1. d # c
    BY <1>1
  <2>2. PICK f \in files : f.path = Path(d) /\ f.token = d
    BY <1>1, <2>1 DEF FilesIInv, OwnToken
  <2>3. f \in files'
    BY <1>2, <2>1, <2>2, PathsDiffer DEF Removed
  <2>4. QED
    BY <1>1, <2>1, <2>2, <2>3
<1>4. Placed'
  BY <1>1, <1>2 DEF FilesIInv, Placed, Holding, Removed
<1>5. QED
  BY <1>3, <1>4 DEF FilesIInv

LEMMA RestartKeeps == FilesIInv /\ Restart => FilesIInv'
<1> SUFFICES ASSUME FilesIInv, Restart PROVE FilesIInv'
  OBVIOUS
<1>1. \A c \in Calls : call'[c].phase # "forward"
  BY Fields DEF Restart, Over, InHand
<1>2. Shape'
  BY ShapeKept DEF FilesIInv, Next
<1>3. OwnToken'
  BY <1>1 DEF OwnToken
<1>4. Placed'
  BY DEF Restart, Placed
<1>5. QED
  BY <1>2, <1>3, <1>4 DEF FilesIInv

LEMMA FilesStep == FilesIInv /\ [Next]_vars => FilesIInv'
<1> SUFFICES ASSUME FilesIInv, [Next]_vars PROVE FilesIInv'
  OBVIOUS
<1>1. Shape /\ Shape'
  BY ShapeKept DEF FilesIInv
<1>2. ASSUME NEW c \in Calls, CallStep(c) PROVE FilesIInv'
  <2>1. CASE Load(c)
    <3>1. \A d \in Calls : Quiet(d)
      BY <1>1, <2>1, Fields DEF Load, Join, Quiet, Holding, Shape
    <3>2. QED
      BY <1>1, <2>1, <3>1, QuietKeeps DEF Load
  <2>2. CASE Look(c)
    <3>0. /\ call[c].phase = "look"
          /\ call'[c].phase \in {"verified", "wait", "refused"}
          /\ \A d \in Calls \ {c} : call'[d] = call[d]
      <4>1. CASE call' = [call EXCEPT ![c] =
                   [Idle EXCEPT !.phase = "verified", !.tool = call[c].tool]]
        BY <1>1, <2>2, <4>1, Fields DEF Look, Shape
      <4>2. ASSUME NEW stage, Join(c, stage)
            PROVE  call'[c].phase = "wait" /\ \A d \in Calls \ {c} : call'[d] = call[d]
        BY <1>1, <4>2, Fields DEF Join, Shape
      <4>3. CASE End(c, "refused")
        BY <1>1, <2>2, <4>3, Fields DEF Look, End, Over, Shape
      <4>4. QED
        BY <2>2, <4>1, <4>2, <4>3 DEF Look
    <3>1. \A d \in Calls : Quiet(d)
      BY <3>0 DEF Quiet, Holding
    <3>2. QED
      BY <1>1, <2>2, <3>1, QuietKeeps DEF Look
  <2>3. CASE Authorized(c)
    <3>0. /\ call[c].phase = "verified"
          /\ \A d \in Calls \ {c} : call'[d] = call[d]
          /\ \/ call'[c].phase \in {"denied", "exchange"}
             \/ call'[c].phase = "forward" /\ call'[c].tool \notin ScopedTools
      <4>1. CASE End(c, "denied")
        BY <1>1, <2>3, <4>1, Fields DEF Authorized, End, Over, Shape
      <4>2. CASE call[c].tool \notin ScopedTools /\ Forward(c)
        <5>1. PICK gone \in BOOLEAN :
                call' = [call EXCEPT ![c].phase = "forward", ![c].gone = gone,
                                     ![c].attached = ~gone]
          BY <4>2 DEF Forward
        <5>2. call'[c] = [call[c] EXCEPT !.phase = "forward", !.gone = gone,
                                         !.attached = ~gone]
          BY <1>1, <5>1 DEF Shape
        <5>3. call'[c].phase = "forward" /\ call'[c].tool = call[c].tool
          BY <1>1, <5>2, Fields DEF Shape
        <5>4. \A d \in Calls \ {c} : call'[d] = call[d]
          BY <1>1, <5>1 DEF Shape
        <5>5. QED
          BY <2>3, <4>2, <5>3, <5>4 DEF Authorized
      <4>3. CASE Goto(c, "exchange")
        BY <1>1, <2>3, <4>3, Fields DEF Authorized, Goto, Shape
      <4>4. QED
        BY <2>3, <4>1, <4>2, <4>3 DEF Authorized
    <3>1. \A d \in Calls : Quiet(d)
      BY <3>0 DEF Quiet, Holding
    <3>2. QED
      BY <1>1, <2>3, <3>1, QuietKeeps DEF Authorized
  <2>4. CASE Exchanged(c)
    <3>1. \A d \in Calls : Quiet(d)
      BY <1>1, <2>4, Fields DEF Exchanged, Goto, End, Over, Quiet, Holding, Shape
    <3>2. QED
      BY <1>1, <2>4, <3>1, QuietKeeps DEF Exchanged
  <2>5. CASE Publish(c)
    BY <1>1, <2>5, PublishKeeps
  <2>6. CASE Aborted(c)
    <3>1. \A d \in Calls : Quiet(d)
      BY <1>1, <2>6, Fields DEF Aborted, Goto, Quiet, Holding, Shape
    <3>2. QED
      BY <1>1, <2>6, <3>1, QuietKeeps DEF Aborted
  <2>7. CASE Remove(c)
    BY <1>1, <2>7, RemoveKeeps
  <2>8. QED
    BY <1>2, <2>1, <2>2, <2>3, <2>4, <2>5, <2>6, <2>7 DEF CallStep
<1>3. ASSUME NEW c \in Calls, UpstreamEnds(c) \/ ClientLeaves(c) PROVE FilesIInv'
  <2>1. \A d \in Calls : Quiet(d)
    BY <1>1, <1>3, Fields DEF UpstreamEnds, ClientLeaves, Goto, Quiet, Holding, Shape
  <2>2. QED
    BY <1>1, <1>3, <2>1, QuietKeeps DEF UpstreamEnds, ClientLeaves
<1>4. ASSUME NEW c \in Calls, NEW tool, NEW token, Arrive(c, tool, token) PROVE FilesIInv'
  <2>1. \A d \in Calls : Quiet(d)
    BY <1>1, <1>4, Fields DEF Arrive, Quiet, Holding, Shape
  <2>2. QED
    BY <1>1, <1>4, <2>1, QuietKeeps DEF Arrive
<1>5. CASE FetchRead \/ Tick \/ UNCHANGED vars
  <2>1. \A d \in Calls : Quiet(d)
    BY <1>5 DEF FetchRead, Tick, vars, Quiet
  <2>2. QED
    BY <1>1, <1>5, <2>1, QuietKeeps DEF FetchRead, Tick, vars
<1>6. CASE FetchEnds \/ FetchFails
  <2>1. \A d \in Calls : Quiet(d)
    <3>1. CASE FetchEnds
      BY <1>1, <1>6, <3>1, Fields DEF FetchEnds, Over, Quiet, Holding, Shape
    <3>2. CASE FetchFails
      BY <1>1, <1>6, <3>2, Fields DEF FetchFails, Over, Quiet, Holding, Shape
    <3>3. QED
      BY <1>6, <3>1, <3>2
  <2>2. QED
    BY <1>1, <1>6, <2>1, QuietKeeps DEF FetchEnds, FetchFails
<1>7. ASSUME NEW kid, NEW key, Rotate(kid, key) PROVE FilesIInv'
  <2>1. \A d \in Calls : Quiet(d)
    BY <1>1, <1>7, Fields DEF Rotate, Quiet, Shape
  <2>2. QED
    BY <1>1, <1>7, <2>1, QuietKeeps DEF Rotate
<1>8. CASE Restart
  BY <1>8, RestartKeeps
<1>9. QED
  BY <1>2, <1>3, <1>4, <1>5, <1>6, <1>7, <1>8 DEF Next

\* proxy.ts, tokenExchange.ts: what is in the directory of token files, and
\* whose it is, in every state.
THEOREM FilesInductive == Spec => []FilesIInv
BY InitFiles, FilesStep, PTL DEF Spec

\* A call at its upstream server finds its own token in its file, whatever
\* other calls, of the same tool or not, write and remove.
THEOREM TokensAreOwn == Spec => []OwnToken
<1>1. FilesIInv => OwnToken
  BY DEF FilesIInv
<1>2. QED
  BY FilesInductive, <1>1, PTL

\* Every token file belongs to a call in hand, or its removal failed or was cut
\* off by a restart.
THEOREM FilesAreInUse == Spec => []FilesInUse
<1>1. FilesIInv => FilesInUse
  BY DEF FilesIInv, Placed, FilesInUse, Holding
<1>2. QED
  BY FilesInductive, <1>1, PTL

-----------------------------------------------------------------------------
(* Keys *)

\* A token's key is published, or was until so long ago that `grace' has not passed
\* at the time `when'.
Within(t, when, grace) == t \in Published \/ when < until[t] + grace

KeysType ==
  /\ now \in Nat
  /\ published \in KeySet
  /\ until \in [Token -> Nat]

\* The fetch in flight has every key that stayed published, and none that had been
\* withdrawn for longer than the fetch may take.
PendingFits ==
  pending # None =>
    /\ DOMAIN pending = {"keys", "steady", "deadline"}
    /\ pending.deadline \in Nat
    /\ now <= pending.deadline /\ pending.deadline <= now + FetchTime
    /\ pending.steady \subseteq Published
    /\ pending.keys # None =>
         \A t \in Token :
           /\ t \in pending.steady => pending.keys[t.kid] = t.key
           /\ pending.keys[t.kid] = t.key =>
                t \in Published \/ pending.deadline <= until[t] + FetchTime

\* The cache expires before a key it has is withdrawn for too long.
CacheFits ==
  cache # None =>
    /\ cache.expires \in Nat /\ cache.expires <= now + CacheTtl
    /\ \A t \in Token : cache.keys[t.kid] = t.key =>
         t \in Published \/ cache.expires <= until[t] + CacheTtl + FetchTime

\* A call whose key was known relies on fetches that have it.
Known(c) ==
  call[c].known =>
    /\ call[c].token \in Published
    /\ pending # None => call[c].token \in pending.steady

CallFits(c) ==
  /\ call[c].phase \in {"load", "wait", "look"} => call[c].token \in Token /\ Known(c)
  /\ call[c].phase = "load" => call[c].stage = "first"
  /\ call[c].phase = "look" =>
       /\ call[c].stage # "first" /\ call[c].known => KeyFor(c) = call[c].token.key
       /\ KeyFor(c) = call[c].token.key =>
            Within(call[c].token, now, CacheTtl + FetchTime)
  /\ call[c].phase = "refused" => ~call[c].known

KeysIInv ==
  /\ Shape /\ KeysType /\ PendingFits /\ CacheFits
  /\ \A c \in Calls : CallFits(c)

LEMMA InitKeys == Init => KeysIInv
<1> SUFFICES ASSUME Init PROVE KeysIInv
  OBVIOUS
<1>1. \A c \in Calls : call[c].phase = "idle"
  BY DEF Init, Idle
<1>2. KeysType /\ PendingFits /\ CacheFits
  BY DEF Init, KeysType, PendingFits, CacheFits
<1>3. QED
  BY <1>1, <1>2, InitShape DEF KeysIInv, CallFits

\* A call that has done with its key.
Done(c) ==
  /\ call'[c].phase \notin {"load", "wait", "look"}
  /\ call'[c].phase = "refused" => ~call'[c].known

\* A step that concerns no keys.
LEMMA DoneKeeps ==
  ASSUME KeysIInv, Shape', UNCHANGED <<now, keyVars>>,
         \A c \in Calls : call'[c] = call[c] \/ Done(c)
  PROVE  KeysIInv'
<1>1. /\ UNCHANGED <<now, published, until, cache, pending>>
      /\ Published' = Published
  BY DEF keyVars, Published
<1>2. KeysType' /\ PendingFits' /\ CacheFits'
  BY <1>1 DEF KeysIInv, KeysType, PendingFits, CacheFits
<1>3. ASSUME NEW c \in Calls PROVE CallFits(c)'
  <2>1. CASE call'[c] = call[c]
    BY <1>1, <2>1 DEF KeysIInv, CallFits, Known, KeyFor, Within
  <2>2. CASE Done(c)
    BY <2>2 DEF Done, CallFits
  <2>3. QED
    BY <2>1, <2>2
<1>4. QED
  BY <1>2, <1>3 DEF KeysIInv

\* A call that joins a fetch, or begins one, relies on that fetch.
LEMMA JoinKeeps ==
  ASSUME KeysIInv, Shape', NEW c \in Calls, NEW stage, Join(c, stage),
         call[c].phase \in {"load", "look"}, UNCHANGED <<now, published, until, cache>>
  PROVE  KeysIInv'
<1>1. /\ Published' = Published
      /\ call'[c].phase = "wait" /\ call'[c].token = call[c].token
      /\ call'[c].known = call[c].known
      /\ \A d \in Calls \ {c} : call'[d] = call[d]
  BY Fields DEF Join, Published, KeysIInv, Shape
<1>2. KeysType' /\ CacheFits'
  BY <1>1 DEF KeysIInv, KeysType, CacheFits
<1>3. \/ pending # None /\ pending' = pending
      \/ pending = None /\ pending' = [keys |-> None, steady |-> Published,
                                       deadline |-> now + FetchTime]
  BY DEF Join
<1>4. PendingFits'
  BY <1>1, <1>3, RuntimeProxyAssumption DEF KeysIInv, KeysType, PendingFits
<1>5. ASSUME NEW d \in Calls, d # c PROVE CallFits(d)'
  <2>1. call'[d] = call[d] /\ CallFits(d)
    BY <1>1, <1>5 DEF KeysIInv
  <2>2. Known(d) => Known(d)'
    BY <1>1, <1>3, <2>1 DEF Known
  <2>3. QED
    BY <1>1, <2>1, <2>2 DEF CallFits, KeyFor, Within
<1>6. CallFits(c)'
  BY <1>1, <1>3 DEF KeysIInv, CallFits, Known
<1>7. QED
  BY <1>2, <1>4, <1>5, <1>6 DEF KeysIInv

\* A call that a step leaves alone.
LEMMA SameFits ==
  ASSUME NEW c, CallFits(c), call'[c] = call[c], UNCHANGED <<now, published, until, pending>>
  PROVE  CallFits(c)'
<1>1. Published' = Published /\ UNCHANGED <<now, until, pending>>
  BY DEF Published
<1>2. KeyFor(c)' = KeyFor(c) /\ Known(c)' = Known(c)
  BY <1>1 DEF KeyFor, Known
<1>3. QED
  BY <1>1, <1>2 DEF CallFits, Within

LEMMA LoadKeeps ==
  ASSUME KeysIInv, Shape', NEW c \in Calls, Load(c)
  PROVE  KeysIInv'
<1>1. CASE ~CacheGood /\ Join(c, "first")
  BY <1>1, JoinKeeps DEF Load
<1>2. CASE /\ CacheGood /\ UNCHANGED pending
           /\ call' = [call EXCEPT ![c].phase = "look", ![c].keys = cache.keys]
  <2>1. /\ call[c].phase = "load" /\ UNCHANGED <<now, published, until, cache>>
        /\ Published' = Published
        /\ call'[c].phase = "look" /\ call'[c].token = call[c].token
        /\ call'[c].known = call[c].known /\ call'[c].stage = call[c].stage
        /\ call'[c].keys = cache.keys
        /\ \A d \in Calls \ {c} : call'[d] = call[d]
    BY <1>2, Fields DEF Load, Published, KeysIInv, Shape
  <2>2. KeysType' /\ PendingFits' /\ CacheFits'
    BY <1>2, <2>1 DEF KeysIInv, KeysType, PendingFits, CacheFits
  <2>3. ASSUME NEW d \in Calls, d # c PROVE CallFits(d)'
    BY <1>2, <2>1, <2>3, SameFits DEF KeysIInv
  <2>4. /\ call[c].token \in Token /\ Known(c) /\ call[c].stage = "first"
    BY <2>1 DEF KeysIInv, CallFits
  <2>5. Known(c)'
    BY <1>2, <2>1, <2>4 DEF Known
  <2>6. ASSUME cache.keys[call[c].token.kid] = call[c].token.key
        PROVE  Within(call[c].token, now, CacheTtl + FetchTime)
    <3>1. /\ cache # None /\ cache.expires \in Nat /\ now < cache.expires
      BY <1>2 DEF CacheGood, KeysIInv, CacheFits, KeysType
    <3>2. \/ call[c].token \in Published
          \/ cache.expires <= until[call[c].token] + CacheTtl + FetchTime
      BY <2>4, <2>6, <3>1 DEF KeysIInv, CacheFits
    <3>3. now \in Nat /\ until[call[c].token] \in Nat
      BY <2>4 DEF KeysIInv, KeysType
    <3>4. QED
      BY <3>1, <3>2, <3>3, RuntimeProxyAssumption DEF Within
  <2>7. CallFits(c)'
    BY <2>1, <2>4, <2>5, <2>6 DEF CallFits, KeyFor, Within
  <2>8. QED
    BY <2>2, <2>3, <2>7 DEF KeysIInv
<1>3. QED
  BY <1>1, <1>2 DEF Load

LEMMA LookKeeps ==
  ASSUME KeysIInv, Shape', NEW c \in Calls, Look(c)
  PROVE  KeysIInv'
<1>1. /\ call[c].phase = "look" /\ UNCHANGED <<now, published, until, cache>>
      /\ CallFits(c)
  BY DEF Look, KeysIInv
<1>2. CASE /\ UNCHANGED pending
           /\ call' = [call EXCEPT ![c] =
                [Idle EXCEPT !.phase = "verified", !.tool = call[c].tool]]
  <2>1. call'[c].phase = "verified" /\ \A d \in Calls \ {c} : call'[d] = call[d]
    BY <1>2, Fields DEF KeysIInv, Shape
  <2>2. \A d \in Calls : call'[d] = call[d] \/ Done(d)
    BY <2>1 DEF Done
  <2>3. QED
    BY <1>1, <1>2, <2>2, DoneKeeps DEF keyVars
<1>3. ASSUME NEW stage, Join(c, stage) PROVE KeysIInv'
  BY <1>1, <1>3, JoinKeeps
<1>4. CASE /\ KeyFor(c) # call[c].token.key /\ NextStage(c) = {}
           /\ End(c, "refused") /\ UNCHANGED pending
  <2>1. call[c].stage # "first"
    BY <1>4 DEF NextStage
  <2>2. ~call[c].known
    BY <1>1, <1>4, <2>1 DEF CallFits
  <2>3. /\ call'[c].phase = "refused" /\ call'[c].known = call[c].known
        /\ \A d \in Calls \ {c} : call'[d] = call[d]
    BY <1>4, Fields DEF KeysIInv, Shape, End, Over
  <2>4. \A d \in Calls : call'[d] = call[d] \/ Done(d)
    BY <2>2, <2>3 DEF Done
  <2>5. QED
    BY <1>1, <1>4, <2>4, DoneKeeps DEF keyVars
<1>5. QED
  BY <1>2, <1>3, <1>4 DEF Look

\* The steps of a call after its verification, and of those around it, end the
\* call or take it further.
After(c) ==
  \/ Authorized(c) \/ Exchanged(c) \/ Publish(c) \/ Aborted(c) \/ Remove(c)
  \/ UpstreamEnds(c) \/ ClientLeaves(c)

LEMMA AfterMoves ==
  ASSUME Shape, NEW c \in Calls, After(c)
  PROVE  /\ \A d \in Calls \ {c} : call'[d] = call[d]
         /\ call'[c].phase \in {"denied", "ended", "forward", "exchange", "write",
                               "remove", "stuck"}
<1> USE Fields DEF Shape
<1>1. ASSUME NEW phase, Goto(c, phase)
      PROVE  call'[c].phase = phase /\ \A d \in Calls \ {c} : call'[d] = call[d]
  BY <1>1 DEF Goto
<1>2. ASSUME NEW phase, End(c, phase)
      PROVE  call'[c].phase = phase /\ \A d \in Calls \ {c} : call'[d] = call[d]
  BY <1>2 DEF End, Over
<1>3. ASSUME Forward(c)
      PROVE  call'[c].phase = "forward" /\ \A d \in Calls \ {c} : call'[d] = call[d]
  <2>1. PICK gone \in BOOLEAN :
          call' = [call EXCEPT ![c].phase = "forward", ![c].gone = gone,
                               ![c].attached = ~gone]
    BY <1>3 DEF Forward
  <2>2. call'[c] = [call[c] EXCEPT !.phase = "forward", !.gone = gone, !.attached = ~gone]
    BY <2>1
  <2>3. QED
    BY <2>1, <2>2
<1>4. ASSUME ClientLeaves(c)
      PROVE  call'[c].phase = "forward" /\ \A d \in Calls \ {c} : call'[d] = call[d]
  BY <1>4 DEF ClientLeaves
<1>5. QED
  BY <1>1, <1>2, <1>3, <1>4
  DEF After, Authorized, Exchanged, Publish, Aborted, Remove, UpstreamEnds

LEMMA AfterKeeps ==
  ASSUME KeysIInv, Shape', NEW c \in Calls, After(c)
  PROVE  KeysIInv'
<1>1. UNCHANGED <<now, keyVars>>
  BY DEF After, Authorized, Exchanged, Publish, Aborted, Remove, UpstreamEnds, ClientLeaves
<1>2. \A d \in Calls : call'[d] = call[d] \/ Done(d)
  BY AfterMoves DEF Done, KeysIInv
<1>3. QED
  BY <1>1, <1>2, DoneKeeps

LEMMA ArriveKeeps ==
  ASSUME KeysIInv, Shape', NEW c \in Calls, NEW tool, NEW token \in Token,
         Arrive(c, tool, token)
  PROVE  KeysIInv'
<1>1. /\ UNCHANGED <<now, published, until, cache, pending>>
      /\ Published' = Published
  BY DEF Arrive, keyVars, Published
<1>2. /\ call'[c].phase = "load" /\ call'[c].stage = "first" /\ call'[c].token = token
      /\ call'[c].known = (token \in Published /\ (pending # None => token \in pending.steady))
      /\ \A d \in Calls \ {c} : call'[d] = call[d]
  BY Fields DEF Arrive, KeysIInv, Shape, Idle
<1>3. KeysType' /\ PendingFits' /\ CacheFits'
  BY <1>1 DEF KeysIInv, KeysType, PendingFits, CacheFits
<1>4. ASSUME NEW d \in Calls, d # c PROVE CallFits(d)'
  BY <1>1, <1>2, <1>4 DEF KeysIInv, CallFits, Known, KeyFor, Within
<1>5. CallFits(c)'
  BY <1>1, <1>2 DEF CallFits, Known
<1>6. QED
  BY <1>3, <1>4, <1>5 DEF KeysIInv


LEMMA FetchReadKeeps ==
  ASSUME KeysIInv, Shape', FetchRead
  PROVE  KeysIInv'
<1>1. /\ pending # None /\ UNCHANGED <<now, published, until, cache, call>>
      /\ pending' = [pending EXCEPT !.keys = published]
      /\ Published' = Published
  BY DEF FetchRead, Published
<1>2. KeysType' /\ CacheFits'
  BY <1>1 DEF KeysIInv, KeysType, CacheFits
<1>3. /\ DOMAIN pending' = DOMAIN pending /\ pending'.keys = published
      /\ pending'.steady = pending.steady /\ pending'.deadline = pending.deadline
  BY <1>1 DEF KeysIInv, PendingFits
<1>4. \A t \in Token : t \in Published <=> published[t.kid] = t.key
  BY DEF Published
<1>5. PendingFits'
  BY <1>1, <1>3, <1>4 DEF KeysIInv, PendingFits
<1>6. ASSUME NEW c \in Calls PROVE CallFits(c)'
  BY <1>1, <1>3 DEF KeysIInv, CallFits, Known, KeyFor, Within
<1>7. QED
  BY <1>2, <1>5, <1>6 DEF KeysIInv

LEMMA FetchEndsKeeps ==
  ASSUME KeysIInv, Shape', FetchEnds
  PROVE  KeysIInv'
<1>1. /\ pending # None /\ pending.keys # None /\ pending' = None
      /\ UNCHANGED <<now, published, until>> /\ Published' = Published
      /\ cache' = [keys |-> pending.keys, expires |-> now + CacheTtl]
      /\ now \in Nat /\ until \in [Token -> Nat]
      /\ pending.deadline \in Nat /\ now <= pending.deadline
  BY DEF FetchEnds, Published, KeysIInv, KeysType, PendingFits
<1>2. \A t \in Token :
        /\ t \in pending.steady => pending.keys[t.kid] = t.key
        /\ pending.keys[t.kid] = t.key =>
             t \in Published \/ pending.deadline <= until[t] + FetchTime
  BY <1>1 DEF KeysIInv, PendingFits
<1>3. KeysType' /\ PendingFits'
  BY <1>1 DEF KeysIInv, KeysType, PendingFits
<1>4. CacheFits'
  <2>1. cache'.expires = now + CacheTtl /\ cache'.keys = pending.keys
    BY <1>1
  <2>2. ASSUME NEW t \in Token, pending.keys[t.kid] = t.key, t \notin Published
        PROVE  now + CacheTtl <= until[t] + CacheTtl + FetchTime
    <3>1. until[t] \in Nat /\ pending.deadline <= until[t] + FetchTime
      BY <1>1, <1>2, <2>2
    <3>2. QED
      BY <1>1, <3>1, RuntimeProxyAssumption
  <2>3. QED
    BY <1>1, <2>1, <2>2, RuntimeProxyAssumption DEF CacheFits
<1>5. ASSUME NEW c \in Calls PROVE CallFits(c)'
  <2>1. CASE call[c].phase = "wait"
    <3>1. /\ call'[c].phase = "look" /\ call'[c].token = call[c].token
          /\ call'[c].known = call[c].known /\ call'[c].keys = pending.keys
      BY <1>5, <2>1, Fields DEF FetchEnds, KeysIInv, Shape
    <3>2. call[c].token \in Token /\ Known(c)
      BY <2>1 DEF KeysIInv, CallFits
    <3>3. Known(c)'
      BY <1>1, <3>1, <3>2 DEF Known
    <3>4. call[c].known => pending.keys[call[c].token.kid] = call[c].token.key
      BY <1>1, <1>2, <3>2 DEF Known
    <3>5. ASSUME pending.keys[call[c].token.kid] = call[c].token.key
          PROVE  Within(call[c].token, now, CacheTtl + FetchTime)
      <4>1. until[call[c].token] \in Nat
        BY <1>1, <3>2
      <4>2. \/ call[c].token \in Published
            \/ pending.deadline <= until[call[c].token] + FetchTime
        BY <1>2, <3>2, <3>5
      <4>3. QED
        BY <1>1, <4>1, <4>2, RuntimeProxyAssumption DEF Within
    <3>6. QED
      BY <1>1, <3>1, <3>2, <3>3, <3>4, <3>5 DEF CallFits, KeyFor, Within
  <2>2. CASE call[c].phase # "wait"
    <3>1. call'[c] = call[c] /\ CallFits(c)
      BY <2>2 DEF FetchEnds, KeysIInv
    <3>2. KeyFor(c)' = KeyFor(c) /\ (Known(c) => Known(c)')
      BY <1>1, <3>1 DEF KeyFor, Known
    <3>3. QED
      BY <1>1, <3>1, <3>2 DEF CallFits, Within
  <2>3. QED
    BY <2>1, <2>2
<1>6. QED
  BY <1>3, <1>4, <1>5 DEF KeysIInv

\* With the fetch, or the cache, go the claims on it.
LEMMA ForgottenKeeps ==
  ASSUME KeysIInv, Shape', pending' = None, cache' \in {cache, None},
         UNCHANGED <<now, published, until>>,
         \A c \in Calls : call'[c] = call[c] \/ Done(c)
  PROVE  KeysIInv'
<1>1. Published' = Published
  BY DEF Published
<1>2. KeysType' /\ PendingFits' /\ CacheFits'
  BY <1>1 DEF KeysIInv, KeysType, PendingFits, CacheFits
<1>3. ASSUME NEW c \in Calls PROVE CallFits(c)'
  <2>1. CASE call'[c] = call[c]
    <3>1. KeyFor(c)' = KeyFor(c) /\ (Known(c) => Known(c)')
      BY <1>1, <2>1 DEF KeyFor, Known
    <3>2. QED
      BY <1>1, <2>1, <3>1 DEF KeysIInv, CallFits, Within
  <2>2. CASE Done(c)
    BY <2>2 DEF Done, CallFits
  <2>3. QED
    BY <2>1, <2>2
<1>4. QED
  BY <1>2, <1>3 DEF KeysIInv

LEMMA RotateKeeps ==
  ASSUME KeysIInv, Shape', NEW kid \in Kids, NEW key \in Keys \cup {None}, Rotate(kid, key)
  PROVE  KeysIInv'
<1> DEFINE left == {t \in Published : t.kid = kid}
<1>1. /\ published' = [published EXCEPT ![kid] = key]
      /\ until' = [t \in Token |-> IF t \in left THEN now ELSE until[t]]
      /\ pending' = IF pending = None THEN None ELSE [pending EXCEPT !.steady = @ \ left]
      /\ call' = [c \in Calls |->
           [call[c] EXCEPT !.known = @ /\ call[c].token \notin left]]
      /\ UNCHANGED <<now, cache>>
      /\ published \in KeySet /\ now \in Nat /\ until \in [Token -> Nat]
  BY DEF Rotate, KeysIInv, KeysType
<1>2. Published \ left \subseteq Published'
  BY <1>1 DEF Published, KeySet, Token
<1>3. KeysType'
  BY <1>1 DEF KeysType, KeySet
<1> DEFINE Held(t, when, grace) == t \in Published \/ when <= until[t] + grace
<1>4. ASSUME NEW t \in Token, NEW when \in Nat, NEW grace \in Nat, when <= now + grace,
             t \in Published \/ when <= until[t] + grace
      PROVE  t \in Published' \/ when <= until'[t] + grace
  BY <1>1, <1>2, <1>4
<1>5. CacheFits'
  <2>1. CASE cache # None
    <3>1. /\ cache.expires \in Nat /\ cache.expires <= now + CacheTtl
          /\ CacheTtl + FetchTime \in Nat /\ cache.expires <= now + (CacheTtl + FetchTime)
      BY <1>1, <2>1, RuntimeProxyAssumption DEF KeysIInv, CacheFits
    <3>2. ASSUME NEW t \in Token, cache.keys[t.kid] = t.key
          PROVE  t \in Published' \/ cache.expires <= until'[t] + (CacheTtl + FetchTime)
      <4>1. until[t] \in Nat
        BY <1>1
      <4>2. t \in Published \/ cache.expires <= until[t] + (CacheTtl + FetchTime)
        BY <2>1, <3>1, <3>2, <4>1, RuntimeProxyAssumption DEF KeysIInv, CacheFits
      <4>3. QED
        BY <1>4, <3>1, <4>2
    <3>3. \A t \in Token : until'[t] \in Nat
      BY <1>3 DEF KeysType
    <3>4. QED
      BY <1>1, <3>1, <3>2, <3>3, RuntimeProxyAssumption DEF CacheFits
  <2>2. QED
    BY <1>1, <2>1 DEF CacheFits
<1>6. ASSUME pending # None
      PROVE  PendingFits' /\ \A c \in Calls : Known(c) => Known(c)'
  <2>1. /\ DOMAIN pending' = DOMAIN pending /\ pending'.keys = pending.keys
        /\ pending'.steady = pending.steady \ left
        /\ pending'.deadline = pending.deadline
    BY <1>1, <1>6 DEF KeysIInv, PendingFits
  <2>2. PendingFits'
    <3>1. pending.steady \ left \subseteq Published'
      BY <1>2, <1>6 DEF KeysIInv, PendingFits
    <3>2. ASSUME pending.keys # None, NEW t \in Token
          PROVE  /\ t \in pending'.steady => pending.keys[t.kid] = t.key
                 /\ pending.keys[t.kid] = t.key =>
                      t \in Published' \/ pending.deadline <= until'[t] + FetchTime
      BY <1>1, <1>4, <1>6, <2>1, <3>2, RuntimeProxyAssumption DEF KeysIInv, PendingFits
    <3>3. QED
      BY <1>1, <1>6, <2>1, <3>1, <3>2 DEF KeysIInv, PendingFits
  <2>3. ASSUME NEW c \in Calls PROVE Known(c) => Known(c)'
    <3>1. call'[c].token = call[c].token
      BY <1>1, Fields DEF KeysIInv, Shape
    <3>2. call'[c].known => call[c].known /\ call[c].token \notin left
      BY <1>1, Fields DEF KeysIInv, Shape
    <3>3. QED
      BY <1>2, <1>6, <2>1, <3>1, <3>2 DEF Known
  <2>4. QED
    BY <2>2, <2>3
<1>7. ASSUME pending = None
      PROVE  PendingFits' /\ \A c \in Calls : Known(c) => Known(c)'
  <2>1. PendingFits'
    BY <1>1, <1>7 DEF PendingFits
  <2>2. ASSUME NEW c \in Calls PROVE Known(c) => Known(c)'
    <3>1. call'[c].token = call[c].token
      BY <1>1, Fields DEF KeysIInv, Shape
    <3>2. call'[c].known => call[c].known /\ call[c].token \notin left
      BY <1>1, Fields DEF KeysIInv, Shape
    <3>3. QED
      BY <1>1, <1>2, <1>7, <3>1, <3>2 DEF Known
  <2>3. QED
    BY <2>1, <2>2
<1>8. ASSUME NEW c \in Calls PROVE CallFits(c)'
  <2>1. /\ call'[c].token = call[c].token /\ call'[c].phase = call[c].phase
        /\ call'[c].stage = call[c].stage /\ call'[c].keys = call[c].keys
    BY <1>1, Fields DEF KeysIInv, Shape
  <2>2. call'[c].known => call[c].known
    BY <1>1, Fields DEF KeysIInv, Shape
  <2>3. Known(c) => Known(c)'
    BY <1>6, <1>7
  <2>4. KeyFor(c)' = KeyFor(c)
    BY <2>1 DEF KeyFor
  <2>5. ASSUME call[c].token \in Token, Within(call[c].token, now, CacheTtl + FetchTime)
        PROVE  Within(call[c].token, now, CacheTtl + FetchTime)'
    <3>1. until[call[c].token] \in Nat /\ now' = now
      BY <1>1, <2>5
    <3>2. CASE call[c].token \in left
      <4>1. until'[call[c].token] = now
        BY <1>1, <2>5, <3>2
      <4>2. now < now + (CacheTtl + FetchTime)
        <5>1. now \in Nat
          BY <1>1
        <5>2. CacheTtl \in Nat /\ CacheTtl > 0 /\ FetchTime \in Nat
          BY RuntimeProxyAssumption
        <5>3. QED
          BY <5>1, <5>2
      <4>3. QED
        BY <2>1, <3>1, <4>1, <4>2 DEF Within
    <3>3. CASE call[c].token \notin left
      <4>1. until'[call[c].token] = until[call[c].token]
        BY <1>1, <2>5, <3>3
      <4>2. QED
        BY <1>2, <2>1, <2>5, <3>1, <3>3, <4>1 DEF Within
    <3>4. QED
      BY <3>2, <3>3
  <2>6. QED
    BY <2>1, <2>2, <2>3, <2>4, <2>5 DEF KeysIInv, CallFits
<1>9. QED
  BY <1>3, <1>5, <1>6, <1>7, <1>8 DEF KeysIInv

LEMMA TickKeeps ==
  ASSUME KeysIInv, Shape', Tick
  PROVE  KeysIInv'
<1>1. /\ UNCHANGED <<published, until, cache, pending, call>> /\ now' = now + 1
      /\ pending # None => now < pending.deadline
      /\ \A c \in Calls : call[c].phase # "look"
      /\ Published' = Published /\ now \in Nat
  BY DEF Tick, keyVars, Published, KeysIInv, KeysType
<1>2. KeysType' /\ PendingFits' /\ CacheFits'
  BY <1>1, RuntimeProxyAssumption DEF KeysIInv, KeysType, PendingFits, CacheFits
<1>3. ASSUME NEW c \in Calls PROVE CallFits(c)'
  BY <1>1 DEF KeysIInv, CallFits, Known
<1>4. QED
  BY <1>2, <1>3 DEF KeysIInv

LEMMA KeysStep == KeysIInv /\ [Next]_vars => KeysIInv'
<1> SUFFICES ASSUME KeysIInv, [Next]_vars PROVE KeysIInv'
  OBVIOUS
<1>1. Shape'
  BY ShapeKept DEF KeysIInv
<1>2. ASSUME NEW c \in Calls, CallStep(c) \/ UpstreamEnds(c) \/ ClientLeaves(c)
      PROVE  KeysIInv'
  BY <1>1, <1>2, LoadKeeps, LookKeeps, AfterKeeps DEF CallStep, After
<1>3. ASSUME NEW c \in Calls, NEW tool, NEW token \in Token, Arrive(c, tool, token)
      PROVE  KeysIInv'
  BY <1>1, <1>3, ArriveKeeps
<1>4. CASE FetchFails
  <2>1. \A c \in Calls : call'[c] = call[c] \/ Done(c)
    BY <1>4, Fields DEF FetchFails, Over, Done
  <2>2. QED
    BY <1>1, <1>4, <2>1, ForgottenKeeps DEF FetchFails
<1>5. CASE Restart
  <2>1. ASSUME NEW c \in Calls PROVE call'[c] = call[c] \/ Done(c)
    BY <1>5, Fields DEF Restart, Over, Done
  <2>2. QED
    BY <1>1, <1>5, <2>1, ForgottenKeeps DEF Restart
<1>6. ASSUME NEW kid \in Kids, NEW key \in Keys \cup {None}, Rotate(kid, key)
      PROVE  KeysIInv'
  BY <1>1, <1>6, RotateKeeps
<1>7. CASE UNCHANGED vars
  BY <1>1, <1>7, DoneKeeps DEF vars, keyVars
<1>8. QED
  BY <1>1, <1>2, <1>3, <1>4, <1>5, <1>6, <1>7, FetchReadKeeps, FetchEndsKeeps, TickKeeps
  DEF Next

\* auth.ts: what the fetch in flight, the cache and the calls know of the keys, in
\* every state.
THEOREM KeysInductive == Spec => []KeysIInv
BY InitKeys, KeysStep, PTL DEF Spec

\* No call is refused for a key that was published all along, whatever the cache
\* held and whichever fetch it joined.
THEOREM KnownKeysPass == Spec => []KeyNotRefused
<1>1. KeysIInv => KeyNotRefused
  BY DEF KeysIInv, CallFits, KeyNotRefused
<1>2. QED
  BY KeysInductive, <1>1, PTL

\* A call is verified by the key it finds for its token.
LEMMA OnlyLookVerifies ==
  ASSUME Shape, [Next]_vars, NEW c \in Calls,
         call[c].phase = "look", call'[c].phase = "verified"
  PROVE  KeyFor(c) = call[c].token.key
<1> USE Fields DEF Shape
<1>1. ASSUME NEW d \in Calls, Load(d) PROVE FALSE
  <2>1. call[d].phase = "load" /\ \A e \in Calls \ {d} : call'[e] = call[e]
    BY <1>1 DEF Load, Join
  <2>2. QED
    BY <2>1
<1>2. ASSUME NEW d \in Calls, NEW stage, Join(d, stage) PROVE FALSE
  <2>1. call'[d].phase = "wait" /\ \A e \in Calls \ {d} : call'[e] = call[e]
    BY <1>2 DEF Join
  <2>2. QED
    BY <2>1
<1>3. ASSUME NEW d \in Calls, Look(d) PROVE KeyFor(c) = call[c].token.key
  <2>1. CASE /\ KeyFor(d) = call[d].token.key
             /\ call' = [call EXCEPT ![d] =
                  [Idle EXCEPT !.phase = "verified", !.tool = call[d].tool]]
    BY <2>1
  <2>2. CASE End(d, "refused")
    <3>1. call'[d].phase = "refused" /\ \A e \in Calls \ {d} : call'[e] = call[e]
      BY <2>2 DEF End, Over
    <3>2. QED
      BY <3>1
  <2>3. QED
    BY <1>2, <1>3, <2>1, <2>2 DEF Look
<1>4. ASSUME NEW d \in Calls, After(d) PROVE FALSE
  BY <1>4, AfterMoves
<1>5. ASSUME NEW d \in Calls, NEW tool, NEW token, Arrive(d, tool, token) PROVE FALSE
  <2>1. call'[d].phase = "load" /\ \A e \in Calls \ {d} : call'[e] = call[e]
    BY <1>5 DEF Arrive
  <2>2. QED
    BY <2>1
<1>6. CASE FetchRead \/ FetchEnds \/ FetchFails \/ Restart \/ Tick \/ UNCHANGED vars
  BY <1>6 DEF FetchRead, FetchEnds, FetchFails, Restart, Tick, vars, Over
<1>7. ASSUME NEW kid, NEW key, Rotate(kid, key) PROVE FALSE
  BY <1>7 DEF Rotate
<1>8. QED
  BY <1>1, <1>3, <1>4, <1>5, <1>6, <1>7 DEF Next, CallStep, After

\* A withdrawn key is honoured for CacheTtl and FetchTime at most.
THEOREM StaleKeysExpire == Spec => StaleKeyBounded
<1>1. ASSUME KeysIInv, [Next]_vars, NEW c \in Calls,
             call[c].phase = "look", call'[c].phase = "verified"
      PROVE  \/ call[c].token \in Published
             \/ now < until[call[c].token] + CacheTtl + FetchTime
  <2>1. KeyFor(c) = call[c].token.key
    BY <1>1, OnlyLookVerifies DEF KeysIInv
  <2>2. /\ call[c].token \in Token
        /\ Within(call[c].token, now, CacheTtl + FetchTime)
    BY <1>1, <2>1 DEF KeysIInv, CallFits
  <2>3. until[call[c].token] \in Nat
    BY <1>1, <2>2 DEF KeysIInv, KeysType
  <2>4. QED
    BY <2>2, <2>3, RuntimeProxyAssumption DEF Within
<1>2. KeysIInv /\ [Next]_vars =>
        [\A c \in Calls :
          call[c].phase = "look" /\ call'[c].phase = "verified" =>
            \/ call[c].token \in Published
            \/ now < until[call[c].token] + CacheTtl + FetchTime]_vars
  BY <1>1
<1>3. QED
  BY KeysInductive, <1>2, PTL DEF Spec, StaleKeyBounded

-----------------------------------------------------------------------------
(* GenAIProxy                                                              *)

\* The requests of project p that are being served.
InFlight(p) == {r \in Requests : project[r] = p}

\* Even if each of them costs as much as it can, p stays within its bound
\* today.  This is the inductive form of OverspendBounded: a request is admitted
\* only below the limit, and then there are at most Requests of them.
Room ==
  \A p \in Limited :
    spent[p][today] + Cardinality(InFlight(p)) * MaxCost
      <= Limit - 1 + Cardinality(Requests) * MaxCost

UsageIInv ==
  /\ TypeOK /\ Durable /\ NeverOvercharged /\ OverspendBounded /\ Room

-----------------------------------------------------------------------------
(* Counting requests in flight *)

\* There are finitely many requests in flight, at most all of them.
LEMMA InFlightFinite ==
  ASSUME NEW p
  PROVE  /\ IsFiniteSet(InFlight(p)) /\ Cardinality(InFlight(p)) \in Nat
         /\ Cardinality(InFlight(p)) <= Cardinality(Requests)
         /\ Cardinality(Requests) \in Nat
<1>1. InFlight(p) \subseteq Requests /\ IsFiniteSet(Requests)
  BY GenAIProxyAssumption DEF InFlight
<1>2. QED
  BY <1>1, FS_Subset, FS_CardinalityType

\* Multiplication is monotone: a fact the arithmetic of the provers needs told.
LEMMA TimesMonotone ==
  ASSUME NEW j \in Nat, NEW k \in Nat, NEW m \in Nat, j <= k
  PROVE  /\ j * m \in Nat /\ k * m \in Nat /\ j * m <= k * m
         /\ (j + 1) * m = j * m + m
  OBVIOUS

\* One request fewer in flight makes room for what it may have cost.
LEMMA OneFewer ==
  ASSUME NEW r \in Requests, project[r] # NoProject,
         project' = [project EXCEPT ![r] = NoProject], TypeOK,
         NEW p \in Projects
  PROVE  Cardinality(InFlight(p)') =
           IF p = project[r] THEN Cardinality(InFlight(p)) - 1
                             ELSE Cardinality(InFlight(p))
<1>1. CASE p = project[r]
  <2>1. InFlight(p)' = InFlight(p) \ {r} /\ r \in InFlight(p)
    BY <1>1, GenAIProxyAssumption DEF InFlight, TypeOK
  <2>2. QED
    BY <1>1, <2>1, InFlightFinite, FS_RemoveElement
<1>2. CASE p # project[r]
  <2>1. InFlight(p)' = InFlight(p)
    BY <1>2, GenAIProxyAssumption DEF InFlight, TypeOK
  <2>2. QED
    BY <1>2, <2>1
<1>3. QED
  BY <1>1, <1>2

-----------------------------------------------------------------------------
(* Usage *)

\* Charging keeps usage usage, and changes it for one project today.
LEMMA ChargedUsage ==
  ASSUME NEW usage \in Usage, NEW p \in Projects, NEW cost \in Nat, today \in Day
  PROVE  /\ Charged(usage, p, cost) \in Usage
         /\ \A q \in Projects, d \in Day :
              Charged(usage, p, cost)[q][d] =
                IF q = p /\ d = today THEN usage[q][d] + cost ELSE usage[q][d]
  BY DEF Usage, Charged

\* The initial state satisfies the invariant.
LEMMA InitUsageIInv == MeterInit => UsageIInv
<1> SUFFICES ASSUME MeterInit PROVE UsageIInv
  OBVIOUS
<1>1. Nothing \in Usage /\ \A p \in Projects, d \in Day : Nothing[p][d] = 0
  BY DEF Nothing, Usage
<1>2. 0 \in Day
  BY GenAIProxyAssumption DEF Day
<1>3. TypeOK
  BY <1>1, <1>2 DEF MeterInit, TypeOK
<1>4. Durable
  BY DEF MeterInit, Durable
<1>5. NeverOvercharged
  BY <1>1 DEF MeterInit, NeverOvercharged
<1>6. ASSUME NEW p \in Limited
      PROVE  Cardinality(InFlight(p)) = 0
  <2>1. InFlight(p) = {}
    BY <1>6, GenAIProxyAssumption DEF MeterInit, InFlight
  <2>2. QED
    BY <2>1, FS_EmptySet
<1>7. \A k \in Nat : 0 <= Limit - 1 + k * MaxCost
  BY GenAIProxyAssumption, TimesMonotone
<1>8. Cardinality(Requests) \in Nat
  BY InFlightFinite
<1>9. OverspendBounded
  BY <1>1, <1>7, <1>8, GenAIProxyAssumption DEF MeterInit, OverspendBounded
<1>10. Room
  BY <1>1, <1>2, <1>6, <1>7, <1>8, GenAIProxyAssumption DEF MeterInit, Room
<1>11. QED
  BY <1>3, <1>4, <1>5, <1>9, <1>10 DEF UsageIInv

\* The invariant survives the admission of a request.
LEMMA AdmitIInv ==
  ASSUME UsageIInv, NEW r \in Requests, NEW p \in Projects, Admit(r, p)
  PROVE  UsageIInv'
<1> USE DEF Admit
<1>1. TypeOK'
  BY DEF UsageIInv, TypeOK
<1>2. Durable' /\ NeverOvercharged' /\ OverspendBounded'
  BY DEF UsageIInv, Durable, NeverOvercharged, OverspendBounded
<1>3. ASSUME NEW q \in Limited
      PROVE  (spent[q][today] + Cardinality(InFlight(q)) * MaxCost
                <= Limit - 1 + Cardinality(Requests) * MaxCost)'
  <2>1. spent[q][today] \in Nat
    BY GenAIProxyAssumption DEF UsageIInv, TypeOK, Usage
  <2>2. CASE q = p
    <3>1. spent[q][today] <= Limit - 1
      BY <2>1, <2>2, GenAIProxyAssumption DEF BelowLimit
    <3>2. /\ Cardinality(InFlight(q)') \in Nat
          /\ Cardinality(InFlight(q)') <= Cardinality(Requests)
          /\ Cardinality(Requests) \in Nat
      <4>1. InFlight(q)' \subseteq Requests /\ IsFiniteSet(Requests)
        BY GenAIProxyAssumption DEF InFlight
      <4>2. QED
        BY <4>1, FS_Subset, FS_CardinalityType
    <3>3. /\ Cardinality(InFlight(q)') * MaxCost \in Nat
          /\ Cardinality(Requests) * MaxCost \in Nat
          /\ Cardinality(InFlight(q)') * MaxCost <= Cardinality(Requests) * MaxCost
      BY <3>2, TimesMonotone, GenAIProxyAssumption
    <3>4. QED
      BY <2>1, <3>1, <3>3, GenAIProxyAssumption
  <2>3. CASE q # p
    <3>1. InFlight(q)' = InFlight(q)
      BY <2>3, GenAIProxyAssumption DEF InFlight, UsageIInv, TypeOK
    <3>2. QED
      BY <3>1 DEF UsageIInv, Room
  <2>4. QED
    BY <2>2, <2>3
<1>4. Room'
  BY <1>3 DEF Room
<1>5. QED
  BY <1>1, <1>2, <1>4 DEF UsageIInv

\* The invariant survives the end of a request, charged or not: with one request
\* fewer in flight there is room for its cost.
LEMMA EndUsageIInv ==
  ASSUME UsageIInv, NEW r \in Requests, NEW cost \in 0..MaxCost,
         project[r] # NoProject, project' = [project EXCEPT ![r] = NoProject],
         today' = today,
         spent' = Charged(spent, project[r], cost)
  PROVE  Room' /\ OverspendBounded' /\ project' \in [Requests -> Projects \cup {NoProject}]
<1> DEFINE p == project[r]
<1>1. p \in Projects /\ cost \in Nat /\ cost <= MaxCost /\ MaxCost \in Nat /\ Limit \in Nat
  BY GenAIProxyAssumption DEF UsageIInv, TypeOK
<1>2. /\ spent \in Usage /\ today \in Day
      /\ \A q \in Projects, d \in Day :
           spent'[q][d] = IF q = p /\ d = today THEN spent[q][d] + cost ELSE spent[q][d]
  BY <1>1, ChargedUsage DEF UsageIInv, TypeOK
<1>3. ASSUME NEW q \in Limited
      PROVE  spent'[q][today] + Cardinality(InFlight(q)') * MaxCost
               <= Limit - 1 + Cardinality(Requests) * MaxCost
  <2>1. /\ q \in Projects /\ spent[q][today] \in Nat
        /\ Cardinality(InFlight(q)) \in Nat /\ Cardinality(Requests) \in Nat
    BY <1>2, InFlightFinite, GenAIProxyAssumption DEF Usage
  <2>2. spent[q][today] + Cardinality(InFlight(q)) * MaxCost
          <= Limit - 1 + Cardinality(Requests) * MaxCost
    BY DEF UsageIInv, Room
  <2>3. Cardinality(InFlight(q)') =
          IF q = p THEN Cardinality(InFlight(q)) - 1 ELSE Cardinality(InFlight(q))
    BY <2>1, OneFewer DEF UsageIInv
  <2>4. CASE q = p
    <3>1. r \in InFlight(q)
      BY <2>4 DEF InFlight
    <3>2. Cardinality(InFlight(q)) # 0
      BY <3>1, InFlightFinite, FS_EmptySet
    <3> DEFINE k == Cardinality(InFlight(q)) - 1
    <3>3. k \in Nat /\ Cardinality(InFlight(q)) = k + 1
      BY <2>1, <3>2
    <3>4. (k + 1) * MaxCost = k * MaxCost + MaxCost /\ k * MaxCost \in Nat
      BY <1>1, <3>3, TimesMonotone
    <3>5. Cardinality(Requests) * MaxCost \in Nat
      BY <1>1, <2>1, TimesMonotone
    <3>6. spent'[q][today] = spent[q][today] + cost
      BY <1>2, <2>1, <2>4
    <3>7. Cardinality(InFlight(q)') = k
      BY <2>3, <2>4
    <3> HIDE DEF k
    <3>8. spent[q][today] + (k * MaxCost + MaxCost)
            <= Limit - 1 + Cardinality(Requests) * MaxCost
      BY <2>2, <3>3, <3>4
    <3>9. QED
      BY <1>1, <2>1, <3>4, <3>5, <3>6, <3>7, <3>8
  <2>5. CASE q # p
    BY <1>2, <2>1, <2>2, <2>3, <2>5
  <2>6. QED
    BY <2>4, <2>5
<1>4. Room'
  BY <1>3 DEF Room
<1>5. ASSUME NEW q \in Limited, NEW d \in Day
      PROVE  spent'[q][d] <= Limit - 1 + Cardinality(Requests) * MaxCost
  <2>1. q \in Projects
    BY GenAIProxyAssumption
  <2>2. CASE d = today
    <3>1. /\ Cardinality(InFlight(q)') \in Nat /\ Cardinality(Requests) \in Nat
      <4>1. InFlight(q)' \subseteq Requests /\ IsFiniteSet(Requests)
        BY GenAIProxyAssumption DEF InFlight
      <4>2. QED
        BY <4>1, FS_Subset, FS_CardinalityType
    <3>2. /\ Cardinality(InFlight(q)') * MaxCost \in Nat
          /\ Cardinality(Requests) * MaxCost \in Nat
      BY <1>1, <3>1, TimesMonotone
    <3>3. spent'[q][today] \in Nat
      BY <1>1, <1>2, <2>1 DEF Usage
    <3>4. QED
      BY <1>1, <1>3, <2>2, <3>2, <3>3
  <2>3. CASE d # today
    BY <1>2, <2>1, <2>3 DEF UsageIInv, OverspendBounded
  <2>4. QED
    BY <2>2, <2>3
<1>6. OverspendBounded'
  BY <1>5 DEF OverspendBounded
<1>7. project' \in [Requests -> Projects \cup {NoProject}]
  BY DEF UsageIInv, TypeOK
<1>8. QED
  BY <1>4, <1>6, <1>7

\* Every step preserves the invariant.
LEMMA NextUsageIInv == UsageIInv /\ [MeterNext]_meterVars => UsageIInv'
<1> SUFFICES ASSUME UsageIInv, [MeterNext]_meterVars PROVE UsageIInv'
  OBVIOUS
<1>1. ASSUME NEW r \in Requests, EndUncharged(r) PROVE UsageIInv'
  <2>1. project[r] \in Projects /\ spent \in Usage /\ 0 \in 0..MaxCost
    BY <1>1, GenAIProxyAssumption DEF EndUncharged, UsageIInv, TypeOK
  <2>2. spent' = Charged(spent, project[r], 0)
    BY <1>1, <2>1 DEF EndUncharged, Charged, UsageIInv, TypeOK, Usage
  <2>3. Room' /\ OverspendBounded' /\ project' \in [Requests -> Projects \cup {NoProject}]
    BY <1>1, <2>1, <2>2, EndUsageIInv DEF EndUncharged
  <2>4. TypeOK'
    BY <1>1, <2>3 DEF EndUncharged, UsageIInv, TypeOK
  <2>5. Durable' /\ NeverOvercharged'
    BY <1>1 DEF EndUncharged, UsageIInv, Durable, NeverOvercharged
  <2>6. QED
    BY <2>3, <2>4, <2>5 DEF UsageIInv
<1>2. ASSUME NEW r \in Requests, NEW p \in Projects, Admit(r, p) PROVE UsageIInv'
  BY <1>2, AdmitIInv
<1>3. ASSUME NEW r \in Requests, NEW cost \in 0..MaxCost, Charge(r, cost) PROVE UsageIInv'
  <2> DEFINE p == project[r]
  <2>1. /\ p \in Projects /\ cost \in Nat
        /\ spent \in Usage /\ saved \in Usage /\ served \in Usage /\ today \in Day
    BY <1>3, GenAIProxyAssumption DEF Charge, UsageIInv, TypeOK
  <2>2. /\ spent' = Charged(spent, p, cost) /\ served' = Charged(served, p, cost)
        /\ saved' \in {saved, spent'} /\ unsaved' \in BOOLEAN
        /\ ~unsaved' => saved' = spent'
        /\ today' = today /\ lost' = lost
    BY <1>3 DEF Charge, Recorded, Save
  <2>3. Room' /\ OverspendBounded' /\ project' \in [Requests -> Projects \cup {NoProject}]
    BY <1>3, <2>2, EndUsageIInv DEF Charge
  <2> HIDE DEF p
  <2>4. /\ spent' \in Usage /\ served' \in Usage
        /\ \A q \in Projects, d \in Day :
             /\ spent'[q][d] =
                  IF q = p /\ d = today THEN spent[q][d] + cost ELSE spent[q][d]
             /\ served'[q][d] =
                  IF q = p /\ d = today THEN served[q][d] + cost ELSE served[q][d]
    <3>1. /\ Charged(spent, p, cost) \in Usage
          /\ \A q \in Projects, d \in Day : Charged(spent, p, cost)[q][d] =
               IF q = p /\ d = today THEN spent[q][d] + cost ELSE spent[q][d]
      BY <2>1, ChargedUsage
    <3>2. /\ Charged(served, p, cost) \in Usage
          /\ \A q \in Projects, d \in Day : Charged(served, p, cost)[q][d] =
               IF q = p /\ d = today THEN served[q][d] + cost ELSE served[q][d]
      BY <2>1, ChargedUsage
    <3>3. QED
      BY <2>2, <3>1, <3>2
  <2>5. saved' \in Usage /\ \A q \in Projects, d \in Day :
          saved'[q][d] = saved[q][d] \/ saved'[q][d] = spent'[q][d]
    BY <2>1, <2>2, <2>4
  <2>6. TypeOK'
    <3>1. \A q \in Projects, d \in Day : d > today' =>
            spent'[q][d] = 0 /\ saved'[q][d] = 0 /\ served'[q][d] = 0
      BY <2>1, <2>2, <2>4, <2>5 DEF UsageIInv, TypeOK, Day
    <3>2. QED
      BY <2>1, <2>2, <2>3, <2>4, <2>5, <3>1 DEF UsageIInv, TypeOK
  <2>7. Durable'
    BY <2>2 DEF UsageIInv, Durable
  <2>8. NeverOvercharged'
    <3>1. ASSUME NEW q \in Projects, NEW d \in Day
          PROVE  saved'[q][d] <= spent'[q][d] /\ spent'[q][d] <= served'[q][d]
      <4>1. /\ saved[q][d] \in Nat /\ spent[q][d] \in Nat /\ served[q][d] \in Nat
            /\ saved[q][d] <= spent[q][d] /\ spent[q][d] <= served[q][d]
        BY <2>1 DEF UsageIInv, NeverOvercharged, Usage
      <4>2. spent'[q][d] <= served'[q][d] /\ spent[q][d] <= spent'[q][d]
        BY <2>1, <2>4, <4>1
      <4>3. spent'[q][d] \in Nat
        BY <2>4 DEF Usage
      <4>4. QED
        BY <2>5, <4>1, <4>2, <4>3
    <3>2. QED
      BY <3>1 DEF NeverOvercharged
  <2>9. QED
    BY <2>3, <2>6, <2>7, <2>8 DEF UsageIInv
<1>4. ASSUME MeterRestarts PROVE UsageIInv'
  <2>1. /\ spent' = saved /\ saved' = saved /\ unsaved' = FALSE /\ today' = today
        /\ project' = [r \in Requests |-> NoProject]
    BY <1>4 DEF MeterRestarts
  <2>2. /\ served' \in Usage /\ lost' \in BOOLEAN
        /\ \A q \in Projects, d \in Day :
             served[q][d] <= served'[q][d] /\ (d > today => served'[q][d] = 0)
        /\ (lost' = (lost \/ unsaved) /\ served' = served) \/ lost' = TRUE
    <3>1. CASE served' = served /\ lost' = (lost \/ unsaved)
      BY <3>1 DEF UsageIInv, TypeOK, Usage
    <3>2. ASSUME NEW r \in Requests, NEW cost \in 1..MaxCost,
                 project[r] # NoProject, served' = Charged(served, project[r], cost),
                 lost' = TRUE
          PROVE  /\ served' \in Usage /\ lost' \in BOOLEAN
                 /\ \A q \in Projects, d \in Day :
                      served[q][d] <= served'[q][d] /\ (d > today => served'[q][d] = 0)
      <4>1. project[r] \in Projects /\ cost \in Nat /\ served \in Usage /\ today \in Day
        BY <3>2, GenAIProxyAssumption DEF UsageIInv, TypeOK
      <4>2. /\ served' \in Usage
            /\ \A q \in Projects, d \in Day : served'[q][d] =
                 IF q = project[r] /\ d = today THEN served[q][d] + cost ELSE served[q][d]
        BY <3>2, <4>1, ChargedUsage
      <4>3. \A d \in Day : d > today => d # today
        BY <4>1 DEF Day
      <4>4. QED
        <5>1. ASSUME NEW q \in Projects, NEW d \in Day
              PROVE  /\ served[q][d] <= served'[q][d]
                     /\ d > today => served'[q][d] = 0
          <6>1. served[q][d] \in Nat /\ (d > today => served[q][d] = 0)
            BY <4>1 DEF UsageIInv, TypeOK, Usage
          <6>2. served'[q][d] =
                  IF q = project[r] /\ d = today THEN served[q][d] + cost ELSE served[q][d]
            BY <4>2
          <6>3. CASE q = project[r] /\ d = today
            BY <4>1, <4>3, <6>1, <6>2, <6>3
          <6>4. CASE ~(q = project[r] /\ d = today)
            BY <6>1, <6>2, <6>4
          <6>5. QED
            BY <6>3, <6>4
        <5>2. QED
          BY <3>2, <4>2, <5>1
    <3>3. QED
      BY <1>4, <3>1, <3>2 DEF MeterRestarts
  <2>3. TypeOK'
    BY <2>1, <2>2 DEF UsageIInv, TypeOK
  <2>4. Durable'
    BY <2>1, <2>2 DEF UsageIInv, Durable
  <2>5. NeverOvercharged'
    <3>1. ASSUME NEW q \in Projects, NEW d \in Day
          PROVE  saved[q][d] <= saved[q][d] /\ saved[q][d] <= served'[q][d]
      <4>1. /\ saved[q][d] \in Nat /\ spent[q][d] \in Nat
            /\ served[q][d] \in Nat /\ served'[q][d] \in Nat
            /\ saved[q][d] <= spent[q][d] /\ spent[q][d] <= served[q][d]
            /\ served[q][d] <= served'[q][d]
        BY <2>2 DEF UsageIInv, TypeOK, NeverOvercharged, Usage
      <4>2. QED
        BY <4>1
    <3>2. QED
      BY <2>1, <3>1 DEF NeverOvercharged
  <2>6. ASSUME NEW q \in Limited, NEW d \in Day
        PROVE  saved[q][d] <= Limit - 1 + Cardinality(Requests) * MaxCost
    <3>1. q \in Projects /\ Limit \in Nat /\ MaxCost \in Nat
      BY GenAIProxyAssumption
    <3>2. /\ saved[q][d] \in Nat /\ spent[q][d] \in Nat /\ saved[q][d] <= spent[q][d]
          /\ spent[q][d] <= Limit - 1 + Cardinality(Requests) * MaxCost
      BY <3>1 DEF UsageIInv, TypeOK, NeverOvercharged, OverspendBounded, Usage
    <3>3. Cardinality(Requests) \in Nat /\ Cardinality(Requests) * MaxCost \in Nat
      BY <3>1, InFlightFinite, TimesMonotone
    <3>4. QED
      BY <3>1, <3>2, <3>3
  <2>7. OverspendBounded'
    BY <2>1, <2>6 DEF OverspendBounded
  <2>8. Room'
    <3>1. ASSUME NEW q \in Limited PROVE Cardinality(InFlight(q)') = 0
      <4>1. InFlight(q)' = {}
        BY <2>1, GenAIProxyAssumption DEF InFlight
      <4>2. QED
        BY <4>1, FS_EmptySet
    <3>2. today \in Day /\ MaxCost \in Nat
      BY GenAIProxyAssumption DEF UsageIInv, TypeOK
    <3>3. \A q \in Limited : q \in Projects /\ saved[q][today] \in Nat
      BY <3>2, GenAIProxyAssumption DEF UsageIInv, TypeOK, Usage
    <3>4. QED
      BY <2>1, <2>6, <3>1, <3>2, <3>3 DEF Room
  <2>9. QED
    BY <2>3, <2>4, <2>5, <2>7, <2>8 DEF UsageIInv
<1>5. ASSUME Midnight PROVE UsageIInv'
  <2>1. /\ today \in Day /\ today' = today + 1 /\ today' \in Day
        /\ UNCHANGED <<spent, saved, served, unsaved, lost, project>>
    BY <1>5, GenAIProxyAssumption DEF Midnight, UsageIInv, TypeOK, Day
  <2>2. TypeOK'
    <3>1. \A d \in Day : d > today' => d > today
      BY <2>1 DEF Day
    <3>2. QED
      BY <2>1, <3>1 DEF UsageIInv, TypeOK
  <2>3. Durable' /\ NeverOvercharged' /\ OverspendBounded'
    BY <2>1 DEF UsageIInv, Durable, NeverOvercharged, OverspendBounded
  <2>4. ASSUME NEW q \in Limited
        PROVE  spent[q][today'] + Cardinality(InFlight(q)') * MaxCost
                 <= Limit - 1 + Cardinality(Requests) * MaxCost
    <3>1. spent[q][today'] = 0
      <4>1. today' > today /\ q \in Projects
        BY <2>1, GenAIProxyAssumption DEF Day
      <4>2. QED
        BY <2>1, <4>1 DEF UsageIInv, TypeOK
    <3>2. InFlight(q)' = InFlight(q)
      BY <2>1 DEF InFlight
    <3>3. /\ Cardinality(InFlight(q)) * MaxCost \in Nat
          /\ Cardinality(Requests) * MaxCost \in Nat
          /\ Cardinality(InFlight(q)) * MaxCost <= Cardinality(Requests) * MaxCost
      BY InFlightFinite, TimesMonotone, GenAIProxyAssumption
    <3>4. QED
      BY <3>1, <3>2, <3>3, GenAIProxyAssumption
  <2>5. Room'
    BY <2>1, <2>4 DEF Room
  <2>6. QED
    BY <2>2, <2>3, <2>5 DEF UsageIInv
<1>6. CASE UNCHANGED meterVars
  BY <1>6 DEF meterVars, UsageIInv, TypeOK, Durable, NeverOvercharged, OverspendBounded, Room,
              InFlight
<1>7. QED
  BY <1>1, <1>2, <1>3, <1>4, <1>5, <1>6 DEF MeterNext

-----------------------------------------------------------------------------

\* In every reachable state the usage is well typed, durable, never too much and
\* bounded: the inductive invariant.
THEOREM UsageInductive == MeterSpec => []UsageIInv
<1>1. MeterInit => UsageIInv
  BY InitUsageIInv
<1>2. UsageIInv /\ [MeterNext]_meterVars => UsageIInv'
  BY NextUsageIInv
<1>3. QED
  BY <1>1, <1>2, PTL DEF MeterSpec

\* The variables have their types, and nothing is charged to a day to come.
THEOREM TypeCorrect == MeterSpec => []TypeOK
<1>1. UsageIInv => TypeOK
  BY DEF UsageIInv
<1>2. QED
  BY <1>1, UsageInductive, PTL

\* The usage file equals memory unless a save failed, and memory equals what was
\* served unless a restart lost usage.
THEOREM UsageIsDurable == MeterSpec => []Durable
<1>1. UsageIInv => Durable
  BY DEF UsageIInv
<1>2. QED
  BY <1>1, UsageInductive, PTL

\* Neither the file nor the memory holds usage that was not served.
THEOREM NobodyIsOvercharged == MeterSpec => []NeverOvercharged
<1>1. UsageIInv => NeverOvercharged
  BY DEF UsageIInv
<1>2. QED
  BY <1>1, UsageInductive, PTL

\* Whatever fails, a project exceeds its daily limit by less than what the
\* requests served at the same time can cost.
THEOREM OverspendIsBounded == MeterSpec => []OverspendBounded
<1>1. UsageIInv => OverspendBounded
  BY DEF UsageIInv
<1>2. QED
  BY <1>1, UsageInductive, PTL

=============================================================================
