--------------------------- MODULE SharedSession ---------------------------
(***************************************************************************)
(* The credential cache that every mcp-credential-broker process of one    *)
(* user shares (components/mcp-credential-broker/src/sharedSession.ts).    *)
(*                                                                         *)
(* Two files hold the shared state of one issuer: the credential file,     *)
(* replaced by rename, and the lock file, created with O_EXCL.  Connectors *)
(* serve MCP requests (authenticatedFetch.ts), logout processes run        *)
(* `--logout` (index.ts).  A step of a process is the code between two     *)
(* awaits on the file system, the browser or the Gateway, so every          *)
(* interleaving of file operations of different processes is explored.     *)
(*                                                                         *)
(* Time is a clock shared by all processes.  Passwords, PKCE values and    *)
(* URLs do not matter to the cache: a Gateway session is a number, 0 for   *)
(* "no credential file".  A lock file is identified by the process whose   *)
(* nonce it holds.                                                         *)
(***************************************************************************)
EXTENDS Naturals, FiniteSets

CONSTANTS
  Connectors,   \* connector processes: one MCP request at a time each
  Logouts,      \* processes running --logout
  NoOwner,      \* "the lock file does not exist"
  LockStale,    \* lockStaleMs: age at which a lock file may be reclaimed
  MaxWait,      \* maxWaitMs: how long a process polls for the lock
  Skew,         \* expirySkewMs: a credential this near its expiry is unusable
  Lifetime,     \* expires_in of a new Gateway session
  HoldLimit,    \* bound on a live process's critical section (login timeouts)
  MaxTime,      \* model bound: the clock stops here
  MaxLogins,    \* model bound: browser logins
  MaxOrphans    \* model bound: lock files left behind by crashes

Tasks == Connectors \cup Logouts
Session == 1..MaxLogins

\* The login timeout (5 min) and the 10 s request timeouts end a critical
\* section before the 10 min after which its lock may be reclaimed.
ASSUME SharedSessionAssumption ==
  /\ LockStale \in Nat /\ MaxWait \in Nat /\ Skew \in Nat
  /\ Lifetime \in Nat \ {0} /\ MaxTime \in Nat \ {0}
  /\ MaxLogins \in Nat /\ MaxOrphans \in Nat
  /\ HoldLimit \in Nat /\ HoldLimit <= LockStale
  /\ NoOwner \notin Tasks
  /\ Connectors \cap Logouts = {}

VARIABLES
  now,        \* the clock
  lock,       \* owner of the lock file, or NoOwner
  mtime,      \* modification time of the lock file
  cred,       \* session in the credential file, 0 if there is none
  expiresAt,  \* expiry of each session
  live,       \* sessions the Gateway accepts (until their expiry)
  logins,     \* sessions created so far
  orphans,    \* lock files left behind so far
  proc        \* control state and locals of each process

vars == <<now, lock, mtime, cred, expiresAt, live, logins, orphans, proc>>

gateway == <<expiresAt, live, logins>>
lockFile == <<lock, mtime>>

\* Control states in which a process owns the lock file it created.
Owning == {"recheck", "login", "write", "invRead", "invUnlink",
           "relRead", "relUnlink"}
PC == Owning \cup {"idle", "read", "lock", "use", "again", "invLock",
                   "stat", "unlinkStale", "clearRead", "clearUnlink", "revoke"}

\* Locals: after, where to go on after releasing or polling the lock; deadline,
\* the end of the current wait; token, the session in hand; retried, whether
\* this is the second attempt of authenticatedFetch.
Proc == [pc : PC,
         after : {"idle", "use", "again", "read", "invLock", "revoke"},
         deadline : Nat,
         token : {0} \cup Session,
         retried : BOOLEAN]

Idle == [pc |-> "idle", after |-> "idle", deadline |-> 0, token |-> 0,
         retried |-> FALSE]

Init ==
  /\ now = 0 /\ lock = NoOwner /\ mtime = 0
  /\ cred = 0 /\ expiresAt = [s \in Session |-> 0] /\ live = {}
  /\ logins = 0 /\ orphans = 0
  /\ proc = [p \in Tasks |-> Idle]

\* The process changes state; it goes on at label; it returns to its caller and its locals go;
\* it releases the lock and then goes on at label; it goes on where it said.
Move(p, state) == proc' = [proc EXCEPT ![p] = state]
Goto(p, label) == Move(p, [proc[p] EXCEPT !.pc = label])
Return(p) == Move(p, Idle)
ReleaseThen(p, label) ==
  Move(p, [proc[p] EXCEPT !.pc = "relRead", !.after = label])
Continue(p) ==
  IF proc[p].after = "idle" THEN Return(p)
  ELSE Move(p, [proc[p] EXCEPT !.pc = proc[p].after, !.after = "idle"])

\* readUsable accepts the credential file.
Usable == cred # 0 /\ expiresAt[cred] > now + Skew

\* The Gateway still accepts session s.
Accepted(s) == s \in live /\ now < expiresAt[s]

\* The deadline of a wait that starts now (model bound: it ends before the
\* clock does, so that waits near MaxTime are shorter).
WaitUntil == IF now + MaxWait < MaxTime THEN now + MaxWait ELSE MaxTime - 1

-----------------------------------------------------------------------------
(* getOrCreate *)

\* A request enters getOrCreate, for the first time or to retry after a 401.
Start(c) ==
  /\ proc[c].pc \in {"idle", "again"}
  /\ Move(c, [Idle EXCEPT !.pc = "read", !.deadline = WaitUntil,
                          !.retried = (proc[c].pc = "again")])
  /\ UNCHANGED <<now, lockFile, cred, gateway, orphans>>

\* Mutant of Read: the loop forgets its deadline.
ReadForever(c) ==
  /\ proc[c].pc = "read"
  /\ IF Usable THEN Move(c, [proc[c] EXCEPT !.pc = "use", !.token = cred])
     ELSE Goto(c, "lock")
  /\ UNCHANGED <<now, lockFile, cred, gateway, orphans>>

\* One turn of the loop: time out, or read the credential file.
Read(c) ==
  /\ proc[c].pc = "read"
  /\ \/ now > proc[c].deadline /\ Return(c)
     \/ /\ now <= proc[c].deadline /\ Usable
        /\ Move(c, [proc[c] EXCEPT !.pc = "use", !.token = cred])
     \/ now <= proc[c].deadline /\ ~Usable /\ Goto(c, "lock")
  /\ UNCHANGED <<now, lockFile, cred, gateway, orphans>>

\* The process is about to call tryAcquireLock (invalidate tests its deadline
\* right before, getOrCreate before its read).
Trying(p) ==
  \/ proc[p].pc = "lock"
  \/ proc[p].pc = "invLock" /\ now <= proc[p].deadline

\* Mutant of AcquireLock: the lock file is opened without O_EXCL.
AcquireLockShared(p) ==
  /\ Trying(p)
  /\ lock' = p /\ mtime' = now
  /\ Goto(p, IF proc[p].pc = "lock" THEN "recheck" ELSE "invRead")
  /\ UNCHANGED <<now, cred, gateway, orphans>>

\* tryAcquireLock: O_CREAT | O_EXCL, then write the owner record.
AcquireLock(p) ==
  /\ Trying(p) /\ lock = NoOwner
  /\ lock' = p /\ mtime' = now
  /\ Goto(p, IF proc[p].pc = "lock" THEN "recheck" ELSE "invRead")
  /\ UNCHANGED <<now, cred, gateway, orphans>>

\* EEXIST: go and look for a stale lock, then take another turn.
FindLocked(p) ==
  /\ Trying(p) /\ lock # NoOwner
  /\ Move(p, [proc[p] EXCEPT !.pc = "stat",
                !.after = IF proc[p].pc = "lock" THEN "read" ELSE "invLock"])
  /\ UNCHANGED <<now, lockFile, cred, gateway, orphans>>

\* The lock file was created but writing the owner record failed: the error
\* propagates and nobody removes the file.
LockWriteFails(p) ==
  /\ Trying(p) /\ lock = NoOwner /\ orphans < MaxOrphans
  /\ lock' = p /\ mtime' = now
  /\ orphans' = orphans + 1
  /\ Return(p)
  /\ UNCHANGED <<now, cred, gateway>>

\* Second read of the credential file, now under the lock.
Recheck(c) ==
  /\ proc[c].pc = "recheck"
  /\ \/ /\ Usable
        /\ Move(c, [proc[c] EXCEPT !.pc = "relRead", !.after = "use",
                                !.token = cred])
     \/ ~Usable /\ Goto(c, "login")
  /\ UNCHANGED <<now, lockFile, cred, gateway, orphans>>

\* acquireCredential returns: the user signed in and the Gateway opened a
\* session.
LoginSucceeds(c) ==
  /\ proc[c].pc = "login" /\ logins < MaxLogins
  /\ logins' = logins + 1
  /\ expiresAt' = [expiresAt EXCEPT ![logins + 1] = now + Lifetime]
  /\ live' = live \cup {logins + 1}
  /\ Move(c, [proc[c] EXCEPT !.pc = "write", !.token = logins + 1])
  /\ UNCHANGED <<now, lockFile, cred, orphans>>

\* The browser flow fails or times out, or assertCredential rejects its result.
LoginFails(c) ==
  /\ proc[c].pc = "login"
  /\ ReleaseThen(c, "idle")
  /\ UNCHANGED <<now, lockFile, cred, gateway, orphans>>

\* writeCredentialAtomically: the rename is the step that counts.  It may fail
\* before the rename (nothing changes) or in the chmod after it.
Write(c) ==
  /\ proc[c].pc = "write"
  /\ \/ cred' = proc[c].token /\ ReleaseThen(c, "use")
     \/ cred' \in {cred, proc[c].token} /\ ReleaseThen(c, "idle")
  /\ UNCHANGED <<now, lockFile, gateway, orphans>>

-----------------------------------------------------------------------------
(* releaseOwnedLock and removeStaleLock *)

\* Read the owner record; a missing or foreign record ends the release.
ReleaseRead(p) ==
  /\ proc[p].pc = "relRead"
  /\ IF lock = p THEN Goto(p, "relUnlink") ELSE Continue(p)
  /\ UNCHANGED <<now, lockFile, cred, gateway, orphans>>

ReleaseUnlink(p) ==
  /\ proc[p].pc = "relUnlink"
  /\ lock' = NoOwner /\ mtime' = 0
  /\ Continue(p)
  /\ UNCHANGED <<now, cred, gateway, orphans>>

\* Mutant of StatLock: any lock file counts as stale.
StatLockAnyAge(p) ==
  /\ proc[p].pc = "stat"
  /\ IF lock # NoOwner THEN Goto(p, "unlinkStale") ELSE Continue(p)
  /\ UNCHANGED <<now, lockFile, cred, gateway, orphans>>

\* lstat the lock file; the process sleeps pollIntervalMs before its next turn.
StatLock(p) ==
  /\ proc[p].pc = "stat"
  /\ IF lock # NoOwner /\ now > mtime + LockStale
     THEN Goto(p, "unlinkStale") ELSE Continue(p)
  /\ UNCHANGED <<now, lockFile, cred, gateway, orphans>>

\* unlinkIfPresent by name: whichever lock file has the name by now.
UnlinkStale(p) ==
  /\ proc[p].pc = "unlinkStale"
  /\ lock' = NoOwner /\ mtime' = 0
  /\ Continue(p)
  /\ UNCHANGED <<now, cred, gateway, orphans>>

-----------------------------------------------------------------------------
(* authenticatedFetch and invalidate *)

\* Send the request.  A 401 on the first attempt leads to invalidate and one
\* more attempt; any other answer, and the second 401, goes to the MCP client.
Use(c) ==
  /\ proc[c].pc = "use"
  /\ IF Accepted(proc[c].token) \/ proc[c].retried
     THEN Return(c)
     ELSE Move(c, [proc[c] EXCEPT !.pc = "invLock", !.deadline = WaitUntil])
  /\ UNCHANGED <<now, lockFile, cred, gateway, orphans>>

\* invalidate gives up.
InvalidateTimesOut(p) ==
  /\ proc[p].pc = "invLock" /\ now > proc[p].deadline
  /\ Return(p)
  /\ UNCHANGED <<now, lockFile, cred, gateway, orphans>>

\* Mutant of InvalidateRead: remove whatever session the file holds.
InvalidateReadAny(p) ==
  /\ proc[p].pc = "invRead"
  /\ IF cred # 0 THEN Goto(p, "invUnlink")
     ELSE ReleaseThen(p, IF p \in Connectors THEN "again" ELSE "idle")
  /\ UNCHANGED <<now, lockFile, cred, gateway, orphans>>

\* Under the lock: does the file still hold the rejected session?  A connector
\* retries either way, a logout counts the session as cleared only if so.
InvalidateRead(p) ==
  /\ proc[p].pc = "invRead"
  /\ IF cred = proc[p].token THEN Goto(p, "invUnlink")
     ELSE ReleaseThen(p, IF p \in Connectors THEN "again" ELSE "idle")
  /\ UNCHANGED <<now, lockFile, cred, gateway, orphans>>

InvalidateUnlink(p) ==
  /\ proc[p].pc = "invUnlink"
  /\ cred' = 0
  /\ ReleaseThen(p, IF p \in Connectors THEN "again" ELSE "revoke")
  /\ UNCHANGED <<now, lockFile, gateway, orphans>>

-----------------------------------------------------------------------------
(* clearAll and logout *)

\* readdir finds the credential file.
Logout(q) ==
  /\ proc[q].pc = "idle" /\ cred # 0
  /\ Goto(q, "clearRead")
  /\ UNCHANGED <<now, lockFile, cred, gateway, orphans>>

\* Read it: a file that is gone (or malformed) is unlinked without the lock.
ClearRead(q) ==
  /\ proc[q].pc = "clearRead"
  /\ IF cred = 0 THEN Goto(q, "clearUnlink")
     ELSE Move(q, [proc[q] EXCEPT !.pc = "invLock", !.token = cred,
                               !.deadline = WaitUntil])
  /\ UNCHANGED <<now, lockFile, cred, gateway, orphans>>

ClearUnlink(q) ==
  /\ proc[q].pc = "clearUnlink"
  /\ cred' = 0
  /\ Return(q)
  /\ UNCHANGED <<now, lockFile, gateway, orphans>>

\* revokeGatewayCredential, which may fail after the file is gone.
Revoke(q) ==
  /\ proc[q].pc = "revoke"
  /\ live' \in {live, live \ {proc[q].token}}
  /\ Return(q)
  /\ UNCHANGED <<now, lockFile, cred, expiresAt, logins, orphans>>

-----------------------------------------------------------------------------
(* Environment *)

\* The Gateway forgets a session: restart, or 401 reauth_required.
GatewayDrops(s) ==
  /\ s \in live
  /\ live' = live \ {s}
  /\ UNCHANGED <<now, lockFile, cred, expiresAt, logins, orphans, proc>>

\* A process is killed.  Inside its critical section it leaves its lock file.
Crash(p) ==
  /\ proc[p].pc # "idle"
  /\ \/ proc[p].pc \notin Owning /\ UNCHANGED orphans
     \/ proc[p].pc \in Owning /\ orphans < MaxOrphans /\ orphans' = orphans + 1
  /\ Return(p)
  /\ UNCHANGED <<now, lockFile, cred, gateway>>

\* Time passes, but no live process stays in its critical section for more
\* than HoldLimit.
Tick ==
  /\ now < MaxTime
  /\ \A p \in Tasks : proc[p].pc \in Owning /\ lock = p => now < mtime + HoldLimit
  /\ now' = now + 1
  /\ UNCHANGED <<lockFile, cred, gateway, orphans, proc>>

LockStep(p) ==
  \/ AcquireLock(p) \/ FindLocked(p) \/ InvalidateTimesOut(p)
  \/ ReleaseRead(p) \/ ReleaseUnlink(p) \/ StatLock(p) \/ UnlinkStale(p)
  \/ InvalidateRead(p) \/ InvalidateUnlink(p)

ConnectorStep(c) ==
  \/ (proc[c].pc = "again" /\ Start(c))
  \/ Read(c) \/ Recheck(c) \/ LoginSucceeds(c) \/ LoginFails(c) \/ Write(c)
  \/ Use(c)

LogoutStep(q) == ClearRead(q) \/ ClearUnlink(q) \/ Revoke(q)

Next ==
  \/ \E c \in Connectors : Start(c) \/ ConnectorStep(c)
  \/ \E q \in Logouts : Logout(q) \/ LogoutStep(q)
  \/ \E p \in Tasks : LockStep(p) \/ LockWriteFails(p) \/ Crash(p)
  \/ \E s \in Session : GatewayDrops(s)
  \/ Tick

Spec == Init /\ [][Next]_vars

\* A running process keeps taking steps and the clock keeps running; nothing
\* obliges users, crashes or the Gateway to act.
FairSpec ==
  /\ Spec
  /\ \A c \in Connectors : WF_vars(ConnectorStep(c) \/ LockStep(c))
  /\ \A q \in Logouts : WF_vars(LogoutStep(q) \/ LockStep(q))
  /\ WF_vars(Tick)

-----------------------------------------------------------------------------
(* Properties *)

\* A process in state r uses, writes, rejects or revokes a session, now or after
\* releasing or polling the lock.
NeedsToken(r) ==
  \/ r.pc \in {"use", "write", "invLock", "invRead", "invUnlink", "revoke"}
  \/ r.after \in {"use", "invLock", "revoke"}

\* Types, and: a process that uses, writes, rejects or revokes a session has
\* one in hand.
TypeOK ==
  /\ now \in Nat /\ mtime \in Nat /\ mtime <= now
  /\ lock \in Tasks \cup {NoOwner}
  /\ cred \in {0} \cup Session
  /\ expiresAt \in [Session -> Nat]
  /\ live \subseteq Session
  /\ logins \in 0..MaxLogins
  /\ orphans \in 0..MaxOrphans
  /\ proc \in [Tasks -> Proc]
  /\ \A p \in Tasks : NeedsToken(proc[p]) => proc[p].token # 0

\* Connectors with a browser flow in progress or its result unwritten.
Flows == {c \in Connectors : proc[c].pc \in {"login", "write"}}

\* While no lock file has been left behind, the lock file exists exactly when
\* a process is in its critical section, it names that process, it is younger
\* than LockStale, and nobody is about to reclaim it.
LockDiscipline ==
  orphans = 0 =>
    /\ \A p \in Tasks : proc[p].pc \in Owning <=> lock = p
    /\ lock # NoOwner => now <= mtime + LockStale
    /\ \A p \in Tasks : proc[p].pc # "unlinkStale"

\* "An exclusive cross-process lock permits only one browser flow at a time"
\* holds while no lock file has been left behind by a crash or failed write.
OneBrowserFlow == orphans = 0 => \A c, d \in Flows : c = d

\* A request or a logout never hangs, not even behind the lock file of a
\* killed process: it is answered or it times out.
RequestsEnd == \A p \in Tasks : proc[p].pc # "idle" ~> proc[p].pc = "idle"

Cache == INSTANCE SessionCache WITH
  flows <- Flows,
  signingOut <- \E q \in Logouts : proc[q].pc # "idle"

\* The lock-file protocol implements the abstract cache as long as no lock
\* file is left behind: one flow at a time, begun only without a usable
\* session, and no session dropped that the Gateway still accepts unless a
\* logout runs.
ImplementsCache == Cache!Spec

=============================================================================
