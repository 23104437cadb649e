---------------------------- MODULE SessionCache ----------------------------
(***************************************************************************)
(* What the shared credential cache promises its connectors, without lock  *)
(* files, polling or interleaved file operations: one cell that holds the  *)
(* current Gateway session, at most one browser flow at a time, begun only *)
(* when the cell holds nothing usable, and sessions that leave the cell    *)
(* only because the Gateway no longer accepts them or the user signs out.  *)
(* Stated in components/mcp-credential-broker/README.md ("Shared Session   *)
(* and Security"); SharedSession is shown to implement it.                 *)
(***************************************************************************)
EXTENDS Naturals

CONSTANTS Connectors, Session, Skew, Lifetime

VARIABLES
  now, expiresAt, live, logins,   \* the clock and the Gateway's sessions
  cred,       \* the cell: a session, or 0
  flows,      \* connectors with a browser flow in progress
  signingOut  \* a logout is running

vars == <<now, expiresAt, live, logins, cred, flows, signingOut>>

Usable == cred # 0 /\ expiresAt[cred] > now + Skew
Accepted(s) == s \in live /\ now < expiresAt[s]

Init ==
  /\ now = 0 /\ cred = 0 /\ live = {} /\ logins = 0
  /\ expiresAt = [s \in Session |-> 0]
  /\ flows = {} /\ signingOut = FALSE

BeginFlow(c) ==
  /\ flows = {} /\ ~Usable
  /\ flows' = {c}
  /\ UNCHANGED <<now, expiresAt, live, logins, cred, signingOut>>

OpenSession ==
  /\ flows # {}
  /\ logins' = logins + 1
  /\ expiresAt' = [expiresAt EXCEPT ![logins + 1] = now + Lifetime]
  /\ live' = live \cup {logins + 1}
  /\ UNCHANGED <<now, cred, flows, signingOut>>

\* A flow ends and leaves the newest session in the cell, or no trace.
EndFlow ==
  /\ flows # {}
  /\ flows' = {}
  /\ cred' \in {cred, logins}
  /\ UNCHANGED <<now, expiresAt, live, logins, signingOut>>

Forget ==
  /\ cred # 0 /\ (~Accepted(cred) \/ signingOut)
  /\ cred' = 0
  /\ UNCHANGED <<now, expiresAt, live, logins, flows>>
  /\ signingOut' \in {signingOut, FALSE}

SignOut ==
  /\ signingOut' = ~signingOut
  /\ UNCHANGED <<now, expiresAt, live, logins, cred, flows>>

\* The Gateway drops sessions, or a logout revokes one (and may thereby end).
EndSession ==
  /\ \E s \in live : live' = live \ {s}
  /\ signingOut' \in {signingOut, FALSE}
  /\ UNCHANGED <<now, expiresAt, logins, cred, flows>>

Tick ==
  /\ now' = now + 1
  /\ UNCHANGED <<expiresAt, live, logins, cred, flows, signingOut>>

Next ==
  \/ \E c \in Connectors : BeginFlow(c)
  \/ OpenSession \/ EndFlow \/ Forget \/ SignOut \/ EndSession \/ Tick

Spec == Init /\ [][Next]_vars
=============================================================================
